---- MODULE Spec2Model ----
(***************************************************************************)
(* Model of the scoring, classification and deduplication core of the VC   *)
(* sourcing agent: src/src/dedupe.py, src/src/filters.py, src/scoring.py,  *)
(* src/src/utils/dedupe.py, and TextAnalyzer, DataTransformer and          *)
(* VCSourcingPipeline.run of src/src/sourcing.py.                          *)
(*                                                                         *)
(* Python strings are sequences of one-character strings; a dict is a     *)
(* function whose domain is the set of keys that are present.              *)
(***************************************************************************)
EXTENDS Integers, Sequences, FiniteSets, TLC

VARIABLES
    rows,           \* dedupe_rows: the argument
    idx,            \* dedupe_rows: how many rows the outer loop has consumed
    deduped,        \* dedupe_rows: the list of survivors
    pass,           \* 1: the first call, 2: the call on the first call's result
    country,        \* calculate_score: the country argument
    text,           \* calculate_score: the text argument
    score,          \* calculate_score: the returned score
    startup,        \* score_startup: the startup dict
    config,         \* score_startup / classify_row: the configuration
    result,         \* score_startup: the returned score
    candidate,      \* classify_row: the Row, with its score once classified
    classification, \* classify_row: the returned classification
    pc,             \* "start" before the call of a one-step specification, "done"
                    \* after, "raised" once a call has raised; for run(), the
                    \* path the last run took
    fuzz,           \* dedupe.py: "rapidfuzz" when its import succeeded, else "fallback"
    penaltyCall,    \* sector_penalty: the arguments
    penalty,        \* sector_penalty: the returned penalty
    frame,          \* utils.dedupe: the rows of the DataFrame argument
    kept,           \* utils.dedupe: the rows of the returned DataFrame
    batch,          \* run: the items fetch_feed_items returned
    df,             \* run: the rows of the transformed DataFrame
    sheet,          \* the URL column of the worksheet, row by row
    ret,            \* run: the returned rows
    runs            \* run: the number of runs started

dedupeVars == <<rows, idx, deduped, pass>>

scoreVars == <<country, text, score>>

startupVars == <<startup, result>>

classifyVars == <<candidate, classification>>

penaltyVars == <<penaltyCall, penalty>>

frameVars == <<frame, kept>>

pipelineVars == <<batch, df, sheet, ret, runs>>

vars == <<rows, idx, deduped, pass, country, text, score, startup, config, result,
          candidate, classification, pc, fuzz, penaltyCall, penalty, frame, kept,
          batch, df, sheet, ret, runs>>

(***************************************************************************)
(* Strings                                                                 *)
(***************************************************************************)

\* The characters of the model's strings in code point order (ASCII).
Chars == <<" ", "-", ".", "0", "1", "2", "3", "4", "5", "6", "7", "8", "9", "A", "B", "C", "D", "E", "F", "G", "H", "I", "J", "K", "L", "M", "N", "O", "P", "Q", "R", "S", "T", "U", "V", "W", "X", "Y", "Z", "a", "b", "c", "d", "e", "f", "g", "h", "i", "j", "k", "l", "m", "n", "o", "p", "q", "r", "s", "t", "u", "v", "w", "x", "y", "z">>

UpperCase == <<"A", "B", "C", "D", "E", "F", "G", "H", "I", "J", "K", "L", "M", "N", "O", "P", "Q", "R", "S", "T", "U", "V", "W", "X", "Y", "Z">>

LowerCase == <<"a", "b", "c", "d", "e", "f", "g", "h", "i", "j", "k", "l", "m", "n", "o", "p", "q", "r", "s", "t", "u", "v", "w", "x", "y", "z">>

\* ord(c), up to the order it induces.
Ord(c) == CHOOSE i \in 1..Len(Chars) : Chars[i] = c

IsUpper(c) == \E i \in 1..Len(UpperCase) : UpperCase[i] = c

IsLower(c) == \E i \in 1..Len(LowerCase) : LowerCase[i] = c

\* str.lower() on one character.
LowerChar(c) ==
    IF IsUpper(c)
    THEN LowerCase[CHOOSE i \in 1..Len(UpperCase) : UpperCase[i] = c]
    ELSE c

\* None, where a str is expected: a value that is no string of the model.
None == <<"<None>">>

\* None, where a number is expected: a value that is no score of the model.
NoneInt == -1

\* str.lower()
Lower(s) == [i \in 1..Len(s) |-> LowerChar(s[i])]

\* Python's s > t on strings: lexicographic by code point, a proper prefix is smaller.
RECURSIVE StrGreater(_, _)
StrGreater(s, t) ==
    IF s = <<>> THEN FALSE
    ELSE IF t = <<>> THEN TRUE
    ELSE IF Head(s) # Head(t) THEN Ord(Head(s)) > Ord(Head(t))
    ELSE StrGreater(Tail(s), Tail(t))

\* Python's `needle in haystack` on strings.
Contains(hay, needle) ==
    \E i \in 0..(Len(hay) - Len(needle)) :
        \A j \in 1..Len(needle) : hay[i + j] = needle[j]

\* str.split(): the maximal runs of non-blank characters, in order.
RECURSIVE SplitFrom(_, _, _)
SplitFrom(s, cur, acc) ==
    IF s = <<>> THEN (IF cur = <<>> THEN acc ELSE Append(acc, cur))
    ELSE IF Head(s) = " "
         THEN SplitFrom(Tail(s), <<>>, IF cur = <<>> THEN acc ELSE Append(acc, cur))
         ELSE SplitFrom(Tail(s), Append(cur, Head(s)), acc)

Split(s) == SplitFrom(s, <<>>, <<>>)

\* sorted(tokens): insertion of one token into a sorted list, then the whole sort.
RECURSIVE InsertSorted(_, _)
InsertSorted(tok, sorted) ==
    IF sorted = <<>> THEN <<tok>>
    ELSE IF StrGreater(tok, Head(sorted))
         THEN <<Head(sorted)>> \o InsertSorted(tok, Tail(sorted))
         ELSE <<tok>> \o sorted

RECURSIVE SortTokens(_)
SortTokens(toks) ==
    IF toks = <<>> THEN <<>>
    ELSE InsertSorted(Head(toks), SortTokens(Tail(toks)))

\* " ".join(tokens)
RECURSIVE Join(_)
Join(toks) ==
    IF toks = <<>> THEN <<>>
    ELSE IF Len(toks) = 1 THEN Head(toks)
    ELSE Head(toks) \o <<" ">> \o Join(Tail(toks))

\* Length of a longest common subsequence.
RECURSIVE LCS(_, _)
LCS(a, b) ==
    IF a = <<>> \/ b = <<>> THEN 0
    ELSE IF Head(a) = Head(b) THEN 1 + LCS(Tail(a), Tail(b))
    ELSE LET l == LCS(Tail(a), b)
             r == LCS(a, Tail(b))
         IN IF l >= r THEN l ELSE r

\* rapidfuzz.fuzz.ratio: the normalised Indel similarity on a 0..100 scale
\* (rounded down; the code only compares it with an integer threshold).
Ratio(a, b) ==
    IF Len(a) + Len(b) = 0 THEN 100
    ELSE (200 * LCS(a, b)) \div (Len(a) + Len(b))

\* rapidfuzz.fuzz.token_sort_ratio: ratio of the token-sorted strings.
token_sort_ratio(a, b) == Ratio(Join(SortTokens(Split(a))), Join(SortTokens(Split(b))))

\* _Fallback.token_sort_ratio; FallbackTokenSorted compares the token-sorted
\* strings instead.
FallbackTokenSorted(a, b) ==
    IF Join(SortTokens(Split(a))) = Join(SortTokens(Split(b))) THEN 100 ELSE 0

FallbackRatio(a, b) == IF a = b THEN 100 ELSE 0

\* fuzz.token_sort_ratio as dedupe.py has bound it at import.
FuzzRatio(a, b) ==
    IF fuzz = "rapidfuzz" THEN token_sort_ratio(a, b) ELSE FallbackRatio(a, b)

(***************************************************************************)
(* src/src/dedupe.py                                                       *)
(***************************************************************************)

\* dict.get(key, default)
Get(row, key, default) == IF key \in DOMAIN row THEN row[key] ELSE default

\* Default of the title_thresh parameter of dedupe_rows.
title_thresh == 90

\* `row_url and ex_url and row_url == ex_url`: an absent url is None, and None
\* and "" are both falsy.
HasUrl(row) == "url" \in DOMAIN row /\ row["url"] # "" /\ row["url"] # "<None>"

SameUrl(row, existing) == HasUrl(row) /\ HasUrl(existing) /\ row["url"] = existing["url"]

\* `value or ""`
OrEmpty(v) == IF v = None THEN <<>> ELSE v

\* (row.get("title") or "").lower()
TitleOf(row) == Lower(OrEmpty(Get(row, "title", None)))

CompanyOf(row) == Lower(OrEmpty(Get(row, "company", None)))

\* The fuzzy test of the inner loop; SimilarTitleOnly is that test without its
\* company half.
SimilarTitleOnly(row, existing) ==
    FuzzRatio(TitleOf(row), TitleOf(existing)) >= title_thresh

Similar(row, existing) ==
    /\ FuzzRatio(TitleOf(row), TitleOf(existing)) >= title_thresh
    /\ FuzzRatio(CompanyOf(row), CompanyOf(existing)) >= title_thresh

\* The test the inner loop of dedupe_rows applies to (row, existing).
Matches(row, existing) == SameUrl(row, existing) \/ Similar(row, existing)

\* _better(new, existing); BetterScoreOnly is _better without its timestamp
\* tie-break.
BetterScoreOnly(new, existing) == Get(new, "score", 0) > Get(existing, "score", 0)

_better(new, existing) ==
    IF Get(new, "score", 0) # Get(existing, "score", 0)
    THEN Get(new, "score", 0) > Get(existing, "score", 0)
    ELSE StrGreater(Get(new, "timestamp", <<>>), Get(existing, "timestamp", <<>>))

\* Whether _better(new, existing) raises TypeError: `!=` is defined on None,
\* `>` is not, neither against a number or a string nor against None.
BetterRaises(new, existing) ==
    IF Get(new, "score", 0) # Get(existing, "score", 0)
    THEN Get(new, "score", 0) = NoneInt \/ Get(existing, "score", 0) = NoneInt
    ELSE Get(new, "timestamp", <<>>) = None \/ Get(existing, "timestamp", <<>>) = None

\* The inner loop: the index of the first survivor that matches row, 0 for None.
replacement_idx(row, surv) ==
    IF \E k \in 1..Len(surv) : Matches(row, surv[k])
    THEN CHOOSE k \in 1..Len(surv) :
            /\ Matches(row, surv[k])
            /\ \A m \in 1..(k - 1) : ~Matches(row, surv[m])
    ELSE 0

\* Whether the iteration of the outer loop on row raises.
StepRaises(row, surv) ==
    LET k == replacement_idx(row, surv)
    IN k # 0 /\ BetterRaises(row, surv[k])

\* One iteration of the outer loop of dedupe_rows; StepRowAlwaysReplace
\* replaces the matched survivor without asking _better.
StepRowAlwaysReplace(row, surv) ==
    LET k == replacement_idx(row, surv)
    IN IF k = 0 THEN Append(surv, row) ELSE [surv EXCEPT ![k] = row]

StepRow(row, surv) ==
    LET k == replacement_idx(row, surv)
    IN IF k = 0 THEN Append(surv, row)
       ELSE IF _better(row, surv[k]) THEN [surv EXCEPT ![k] = row]
       ELSE surv

(***************************************************************************)
(* Inputs                                                                  *)
(***************************************************************************)

MaxRows == 3

\* A dict with exactly the keys whose option set is non-empty.
Only(S) == CHOOSE x \in S : TRUE

MkRow(u, t, c, s, ts) ==
    [k \in ((IF u = {} THEN {} ELSE {"url"})
            \cup (IF t = {} THEN {} ELSE {"title"})
            \cup (IF c = {} THEN {} ELSE {"company"})
            \cup (IF s = {} THEN {} ELSE {"score"})
            \cup (IF ts = {} THEN {} ELSE {"timestamp"})) |->
        CASE k = "url" -> Only(u)
          [] k = "title" -> Only(t)
          [] k = "company" -> Only(c)
          [] k = "score" -> Only(s)
          [] k = "timestamp" -> Only(ts)]

\* Rows of the batches: an absent or one of two urls, three (title, company)
\* pairs of which no two are similar, and two scores.
BatchRows ==
    { MkRow(u, {tc[1]}, {tc[2]}, {s}, {}) :
        u \in {{}, {"u1"}, {"u2"}},
        tc \in {<<<<"a", " ", "b">>, <<"x">>>>,
                <<<<"a", " ", "b">>, <<"y">>>>,
                <<<<"a", " ", "c">>, <<"x">>>>},
        s \in {5, 7} }

Batches == UNION { [1..n -> BatchRows] : n \in 0..MaxRows }

(***************************************************************************)
(* dedupe_rows run row by row, then run again on its own output            *)
(***************************************************************************)

\* The variables of the calls a specification does not make.
NoDedupe == rows = <<>> /\ idx = 0 /\ deduped = <<>> /\ pass = 0

NoScore == country = <<>> /\ text = <<>> /\ score = 0

NoStartup == startup = <<>> /\ result = 0

NoClassify == candidate = <<>> /\ classification = ""

NoPenalty == penaltyCall = <<>> /\ penalty = 0

NoFrame == frame = <<>> /\ kept = <<>>

NoPipeline == batch = <<>> /\ df = <<>> /\ sheet = <<>> /\ ret = <<>> /\ runs = 0

\* The import of rapidfuzz succeeded, and none of the other calls is made.
NoExtra == fuzz = "rapidfuzz" /\ NoPenalty /\ NoFrame /\ NoPipeline

extraVars == <<fuzz, penaltyVars, frameVars, pipelineVars>>

Init ==
    /\ rows \in Batches
    /\ idx = 0
    /\ deduped = <<>>
    /\ pass = 1
    /\ NoScore /\ NoStartup /\ NoClassify /\ NoExtra
    /\ config = <<>>
    /\ pc = "start"

\* for row in rows: ... (one iteration, which ends the call when it raises)
ProcessRow ==
    /\ pc # "raised"
    /\ idx < Len(rows)
    /\ IF StepRaises(rows[idx + 1], deduped)
       THEN pc' = "raised" /\ UNCHANGED <<idx, deduped>>
       ELSE /\ idx' = idx + 1
            /\ deduped' = StepRow(rows[idx + 1], deduped)
            /\ pc' = pc
    /\ UNCHANGED <<rows, pass>>
    /\ UNCHANGED <<scoreVars, startupVars, classifyVars, config, extraVars>>

\* The returned list is handed to dedupe_rows again.
Rerun ==
    /\ pc # "raised"
    /\ pass = 1
    /\ idx = Len(rows)
    /\ rows' = deduped
    /\ idx' = 0
    /\ deduped' = <<>>
    /\ pass' = 2
    /\ UNCHANGED <<scoreVars, startupVars, classifyVars, config, pc, extraVars>>

Next == ProcessRow \/ Rerun

Spec == Init /\ [][Next]_vars

Returned == pass >= 1 /\ idx = Len(rows) /\ pc # "raised"

(***************************************************************************)
(* dedupe_rows on every pair of records, in both orders                    *)
(***************************************************************************)

\* Rows of the pairs: every field present or absent, titles and companies
\* that differ in case and token order only, timestamps of which one is a
\* prefix of another.
PairRows ==
    { MkRow(u, t, c, s, ts) :
        u \in {{}, {"u1"}, {"u2"}},
        t \in {{<<"a", " ", "b">>}, {<<"B", " ", "a">>}, {<<"a", " ", "c">>}},
        c \in {{}, {<<"x">>}},
        s \in {{}, {0}, {5}},
        ts \in {{}, {<<"1">>}, {<<"1", "0">>}, {<<"2">>}} }

InitPair ==
    /\ rows \in [1..2 -> PairRows]
    /\ idx = 0
    /\ deduped = <<>>
    /\ pass = 1
    /\ NoScore /\ NoStartup /\ NoClassify /\ NoExtra
    /\ config = <<>>
    /\ pc = "start"

SpecPair == InitPair /\ [][Next]_vars

(***************************************************************************)
(* Properties of dedupe_rows                                               *)
(***************************************************************************)

\* Equivalence of two records as the Deduplicator's contract states it: both
\* urls present and equal, or title similarity and company similarity both at
\* or above the threshold.
Equivalent(a, b) ==
    \/ /\ Get(a, "url", "") # ""
       /\ Get(a, "url", "") = Get(b, "url", "")
    \/ /\ token_sort_ratio(Lower(Get(a, "title", <<>>)), Lower(Get(b, "title", <<>>))) >= 90
       /\ token_sort_ratio(Lower(Get(a, "company", <<>>)), Lower(Get(b, "company", <<>>))) >= 90

PairwiseDistinct(s) ==
    \A i \in 1..Len(s) : \A j \in 1..Len(s) : i # j => ~Equivalent(s[i], s[j])

\* C1: whenever dedupe_rows has returned, no two distinct survivors share a
\* present url and no two distinct survivors have both title and company
\* similarity at or above the threshold.
C1_NoEquivalentSurvivors == Returned => PairwiseDistinct(deduped)

\* C2: dedupe_rows applied to its own output returns that output unchanged
\* (same records, same order).
C2_Idempotent == (pass = 2 /\ Returned) => deduped = rows

\* C10: a batch in which no two records are equivalent is returned with the
\* same records in the same order.
C10_NoDuplicatesUnchanged ==
    (pass = 1 /\ Returned /\ PairwiseDistinct(rows)) => deduped = rows

\* A batch of three pairwise non-equivalent records has been deduplicated.
C10_Witness ==
    /\ pass = 1
    /\ Returned
    /\ Len(rows) = 3
    /\ PairwiseDistinct(rows)

\* The rank the survivor selection is stated in: the score, 0 when missing,
\* then the timestamp string, "" when missing.
ScoreOr0(r) == IF "score" \in DOMAIN r THEN r["score"] ELSE 0

StampOrEmpty(r) == IF "timestamp" \in DOMAIN r THEN r["timestamp"] ELSE <<>>

\* The record of an equivalent pair (first, second) that is to survive.
Winner(first, second) ==
    IF ScoreOr0(first) > ScoreOr0(second) THEN first
    ELSE IF ScoreOr0(second) > ScoreOr0(first) THEN second
    ELSE IF StrGreater(StampOrEmpty(second), StampOrEmpty(first)) THEN second
    ELSE first

\* C3: of two equivalent records, in either order, exactly one is returned:
\* the one with the strictly higher score, on equal scores the one with the
\* lexicographically later timestamp, and the first one when both are equal.
C3_SurvivorSelection ==
    (pass = 1 /\ Returned /\ Len(rows) = 2 /\ Equivalent(rows[1], rows[2]))
        => deduped = <<Winner(rows[1], rows[2])>>

\* Two equivalent records with equal scores, one of them missing, of which
\* the second has the later timestamp and has replaced the first.
C3_Witness ==
    /\ pass = 1
    /\ Returned
    /\ Len(rows) = 2
    /\ Equivalent(rows[1], rows[2])
    /\ "score" \notin DOMAIN rows[1]
    /\ "score" \in DOMAIN rows[2]
    /\ StrGreater(StampOrEmpty(rows[2]), StampOrEmpty(rows[1]))
    /\ deduped = <<rows[2]>>

(***************************************************************************)
(* src/src/sourcing.py: Config and TextAnalyzer                            *)
(***************************************************************************)

\* Config.SECTOR_BLACKLIST
SECTOR_BLACKLIST ==
    <<<<"f", "i", "n", "t", "e", "c", "h">>, <<"p", "a", "y", "m", "e", "n", "t", "s">>, <<"l", "e", "n", "d", "i", "n", "g">>, <<"b", "u", "y", " ", "n", "o", "w", " ", "p", "a", "y", " ", "l", "a", "t", "e", "r">>, <<"w", "a", "l", "l", "e", "t">>, <<"n", "e", "o", "b", "a", "n", "k">>,
      <<"c", "r", "y", "p", "t", "o", " ", "e", "x", "c", "h", "a", "n", "g", "e">>, <<"r", "e", "m", "i", "t", "t", "a", "n", "c", "e">>>>

\* Config.POST_REVENUE_TERMS (the ASCII ones; the model's texts are ASCII)
POST_REVENUE_TERMS ==
    <<<<"p", "o", "s", "t", "-", "r", "e", "v", "e", "n", "u", "e">>, <<"r", "e", "v", "e", "n", "u", "e">>, <<"i", "n", "g", "r", "e", "s", "o", "s">>, <<"A", "R", "R">>, <<"M", "R", "R">>, <<"p", "a", "y", "i", "n", "g", " ", "c", "u", "s", "t", "o", "m", "e", "r", "s">>,
      <<"c", "l", "i", "e", "n", "t", "e", "s", " ", "d", "e", " ", "p", "a", "g", "o">>, <<"c", "o", "n", "t", "r", "a", "t", "o", "s">>, <<"i", "n", "v", "o", "i", "c", "e", "s">>, <<"c", "o", "m", "p", "r", "a", "s", " ", "r", "e", "c", "u", "r", "r", "e", "n", "t", "e", "s">>>>

\* Config.ENTERPRISE_SIGNALS
ENTERPRISE_SIGNALS ==
    <<<<"e", "n", "t", "e", "r", "p", "r", "i", "s", "e">>, <<"B", "2", "B">>, <<"c", "o", "n", "t", "r", "a", "c", "t">>, <<"p", "i", "l", "o", "t">>, <<"p", "a", "i", "d", " ", "p", "i", "l", "o", "t">>, <<"c", "l", "i", "e", "n", "t", "e", " ", "c", "o", "r", "p", "o", "r", "a", "t", "i", "v", "o">>,
      <<"e", "m", "p", "r", "e", "s", "a">>>>

\* Config.FEMALE_NAMES (the ASCII ones)
FEMALE_NAMES ==
    {<<"a", "n", "a">>, <<"m", "a", "r", "i", "a">>, <<"c", "a", "m", "i", "l", "a">>, <<"d", "a", "n", "i", "e", "l", "a">>, <<"g", "a", "b", "r", "i", "e", "l", "a">>, <<"v", "a", "l", "e", "n", "t", "i", "n", "a">>, <<"i", "s", "a", "b", "e", "l", "l", "a">>,
     <<"s", "o", "f", "i", "a">>, <<"f", "e", "r", "n", "a", "n", "d", "a">>, <<"l", "u", "i", "s", "a">>, <<"l", "a", "u", "r", "a">>, <<"a", "n", "d", "r", "e", "a">>, <<"c", "a", "r", "l", "a">>, <<"c", "a", "r", "o", "l", "i", "n", "a">>, <<"p", "a", "u", "l", "a">>,
     <<"j", "u", "l", "i", "a", "n", "a">>, <<"c", "l", "a", "u", "d", "i", "a">>, <<"p", "a", "t", "r", "i", "c", "i", "a">>, <<"m", "a", "r", "i", "a", "n", "a">>, <<"b", "i", "a", "n", "c", "a">>, <<"b", "r", "u", "n", "a">>, <<"a", "l", "i", "n", "e">>,
     <<"r", "e", "n", "a", "t", "a">>, <<"t", "a", "l", "i", "t", "a">>, <<"c", "a", "r", "o", "l">>, <<"a", "l", "e", "j", "a", "n", "d", "r", "a">>, <<"x", "i", "m", "e", "n", "a">>, <<"p", "a", "u", "l", "i", "n", "e">>, <<"i", "n", "e", "s">>,
     <<"b", "e", "a", "t", "r", "i", "z">>, <<"r", "a", "q", "u", "e", "l">>, <<"c", "e", "c", "i", "l", "i", "a">>, <<"c", "a", "t", "a", "l", "i", "n", "a">>, <<"s", "i", "l", "v", "i", "a">>, <<"v", "e", "r", "o", "n", "i", "c", "a">>}

\* founder_indicators of detect_female_founder, as written: they are looked up
\* in the lower-cased text without being lower-cased themselves.
founder_indicators ==
    <<<<"f", "o", "u", "n", "d", "e", "d", " ", "b", "y">>, <<"c", "o", "-", "f", "o", "u", "n", "d", "e", "d", " ", "b", "y">>, <<"c", "o", "f", "u", "n", "d", "a", "d", "a", " ", "p", "o", "r">>, <<"f", "u", "n", "d", "a", "d", "a", " ", "p", "o", "r">>, <<"f", "u", "n", "d", "a", "d", "o", " ", "p", "o", "r">>,
      <<"c", "o", "f", "o", "u", "n", "d", "e", "r">>, <<"c", "o", "-", "f", "o", "u", "n", "d", "e", "r">>, <<"f", "u", "n", "d", "a", "d", "o", "r", "a">>, <<"f", "u", "n", "d", "a", "d", "o", "r">>, <<"C", "E", "O">>, <<"C", "T", "O">>>>

\* TextAnalyzer.contains_terms
contains_terms(t, terms) ==
    \E k \in 1..Len(terms) : Contains(Lower(t), Lower(terms[k]))

\* \w of the regular expressions, on the model's characters.
IsWord(c) == IsUpper(c) \/ IsLower(c) \/ (Ord(c) >= Ord("0") /\ Ord(c) <= Ord("9"))

\* The last index of the run of lower-case letters that starts at i (i - 1 when
\* there is none): the greedy [a-z]+ of NAME_PATTERN.
RECURSIVE RunEnd(_, _)
RunEnd(t, i) ==
    IF i <= Len(t) /\ IsLower(t[i]) THEN RunEnd(t, i + 1) ELSE i - 1

\* NAME_PATTERN matched at position i: \b, a capitalised word, one blank, a
\* capitalised word, \b.  A shorter lower-case run never helps the match (it
\* would be followed by a lower-case letter, which is neither \s nor a word
\* boundary), so the greedy runs decide.  <<end of the first word, end of the
\* match>>, or <<0, 0>> when there is no match at i.
NameMatchAt(t, i) ==
    LET e1 == RunEnd(t, i + 1)
        e2 == RunEnd(t, e1 + 3)
    IN IF /\ i <= Len(t)
          /\ IsUpper(t[i])
          /\ (i = 1 \/ ~IsWord(t[i - 1]))
          /\ e1 >= i + 1
          /\ e1 + 2 <= Len(t)
          /\ t[e1 + 1] = " "
          /\ IsUpper(t[e1 + 2])
          /\ e2 >= e1 + 3
          /\ (e2 = Len(t) \/ ~IsWord(t[e2 + 1]))
       THEN <<e1, e2>>
       ELSE <<0, 0>>

\* NAME_PATTERN.findall(text): the first words of the non-overlapping matches,
\* scanning from position i.
RECURSIVE FirstNames(_, _)
FirstNames(t, i) ==
    IF i > Len(t) THEN <<>>
    ELSE LET m == NameMatchAt(t, i)
         IN IF m[2] > 0
            THEN <<SubSeq(t, i, m[1])>> \o FirstNames(t, m[2] + 1)
            ELSE FirstNames(t, i + 1)

\* TextAnalyzer.detect_female_founder
detect_female_founder(t) ==
    IF ~(\E k \in 1..Len(founder_indicators) : Contains(Lower(t), founder_indicators[k]))
    THEN FALSE
    ELSE LET names == FirstNames(t, 1)
         IN \E k \in 1..Len(names) : Lower(names[k]) \in FEMALE_NAMES

\* The sum calculate_score accumulates before it clamps.
RawScore(ctry, t) ==
    (IF ctry # <<>> THEN 3 ELSE 0)
    + (IF contains_terms(t, POST_REVENUE_TERMS) THEN 3 ELSE 0)
    + (IF detect_female_founder(t) THEN 2 ELSE 0)
    + (IF contains_terms(t, ENTERPRISE_SIGNALS) THEN 1 ELSE 0)
    - (IF contains_terms(t, SECTOR_BLACKLIST) THEN 2 ELSE 0)

Max(a, b) == IF a >= b THEN a ELSE b

Min(a, b) == IF a <= b THEN a ELSE b

\* TextAnalyzer.calculate_score; UnclampedScore is calculate_score without its
\* final clamp.
UnclampedScore(ctry, t) == RawScore(ctry, t)

calculate_score(ctry, t) == Max(0, Min(10, RawScore(ctry, t)))

(***************************************************************************)
(* calculate_score on a country and a text                                 *)
(***************************************************************************)

MaxFragments == 3

\* The texts are up to MaxFragments of these fragments joined by blanks.
Fragments ==
    {<<"p", "o", "s", "t", "-", "r", "e", "v", "e", "n", "u", "e">>, <<"A", "R", "R">>, <<"e", "n", "t", "e", "r", "p", "r", "i", "s", "e", " ", "p", "i", "l", "o", "t">>, <<"f", "i", "n", "t", "e", "c", "h">>, <<"w", "a", "l", "l", "e", "t">>, <<"f", "o", "u", "n", "d", "e", "d", " ", "b", "y">>,
     <<"A", "n", "a", " ", "L", "o", "p", "e", "z">>, <<"J", "u", "a", "n">>, <<"C", "E", "O">>}

Texts == { Join(f) : f \in UNION { [1..n -> Fragments] : n \in 0..MaxFragments } }

\* country_guess is a country name or "".
Countries == {<<>>, <<"B", "r", "a", "z", "i", "l">>}

InitScore ==
    /\ country \in Countries
    /\ text \in Texts
    /\ score = 0
    /\ NoDedupe /\ NoStartup /\ NoClassify /\ NoExtra
    /\ config = <<>>
    /\ pc = "start"

CalculateScore ==
    /\ pc = "start"
    /\ score' = calculate_score(country, text)
    /\ pc' = "done"
    /\ UNCHANGED <<country, text, dedupeVars, startupVars, classifyVars, config, extraVars>>

NextScore == CalculateScore

SpecScore == InitScore /\ [][NextScore]_vars

\* C7: the score calculate_score returns is an integer from 0 to 10.
C7_ScoreInRange == pc = "done" => score \in 0..10

\* A text whose only signal is the sector penalty has been scored without a
\* country: the sum is -2 and the score 0.
C7_Witness ==
    /\ pc = "done"
    /\ country = <<>>
    /\ text = <<"f", "i", "n", "t", "e", "c", "h">>
    /\ score = 0

Indicator(b) == IF b THEN 1 ELSE 0

AnyTermIn(t, terms) == \E k \in 1..Len(terms) : Contains(Lower(t), Lower(terms[k]))

\* A text mentions a female founder when a founder indicator occurs in it,
\* in any case, together with a name whose first word is a listed female
\* name, or when it says "female-founded" (test_female_and_fintech_penalty).
MentionsFemaleFounder(t) ==
    \/ /\ AnyTermIn(t, founder_indicators)
       /\ \E k \in 1..Len(FirstNames(t, 1)) : Lower(FirstNames(t, 1)[k]) \in FEMALE_NAMES
    \/ Contains(Lower(t), <<"f", "e", "m", "a", "l", "e", "-", "f", "o", "u", "n", "d", "e", "d">>)

\* C9: the score is 3 for a non-empty country, plus 3 for a post-revenue term,
\* plus 2 for a text that mentions a female founder, plus 1 for an enterprise
\* term, minus 2 for a blacklisted-sector term, each counted once, clamped to
\* 0..10.
C9_PointFormula ==
    pc = "done" =>
        LET sum == 3 * Indicator(country # <<>>)
                   + 3 * Indicator(AnyTermIn(text, POST_REVENUE_TERMS))
                   + 2 * Indicator(MentionsFemaleFounder(text))
                   + 1 * Indicator(AnyTermIn(text, ENTERPRISE_SIGNALS))
                   - 2 * Indicator(AnyTermIn(text, SECTOR_BLACKLIST))
        IN score = (IF sum < 0 THEN 0 ELSE IF sum > 10 THEN 10 ELSE sum)

(***************************************************************************)
(* src/scoring.py                                                          *)
(***************************************************************************)

CENTRAL_AMERICA ==
    {<<"B", "e", "l", "i", "z", "e">>, <<"C", "o", "s", "t", "a", " ", "R", "i", "c", "a">>, <<"E", "l", " ", "S", "a", "l", "v", "a", "d", "o", "r">>, <<"G", "u", "a", "t", "e", "m", "a", "l", "a">>, <<"H", "o", "n", "d", "u", "r", "a", "s">>, <<"N", "i", "c", "a", "r", "a", "g", "u", "a">>, <<"P", "a", "n", "a", "m", "a">>}

SOUTH_AMERICA ==
    {<<"A", "r", "g", "e", "n", "t", "i", "n", "a">>, <<"B", "o", "l", "i", "v", "i", "a">>, <<"B", "r", "a", "z", "i", "l">>, <<"C", "h", "i", "l", "e">>, <<"C", "o", "l", "o", "m", "b", "i", "a">>, <<"E", "c", "u", "a", "d", "o", "r">>, <<"G", "u", "y", "a", "n", "a">>,
     <<"P", "a", "r", "a", "g", "u", "a", "y">>, <<"P", "e", "r", "u">>, <<"S", "u", "r", "i", "n", "a", "m", "e">>, <<"U", "r", "u", "g", "u", "a", "y">>, <<"V", "e", "n", "e", "z", "u", "e", "l", "a">>}

FINTECH_KEYWORDS ==
    {<<"f", "i", "n", "t", "e", "c", "h">>, <<"f", "i", "n", "a", "n", "c", "i", "a", "l", " ", "t", "e", "c", "h", "n", "o", "l", "o", "g", "y">>, <<"b", "a", "n", "k", "i", "n", "g">>, <<"p", "a", "y", "m", "e", "n", "t", "s">>, <<"l", "e", "n", "d", "i", "n", "g">>, <<"c", "r", "e", "d", "i", "t">>,
     <<"d", "e", "b", "i", "t">>, <<"n", "e", "o", "b", "a", "n", "k">>}

\* The empty dict.
EmptyDict == <<>>

\* any(country.lower() in location_lower for country in ...)
InRegion(st, region) ==
    \E c \in region : Contains(Lower(Get(st, "location", <<>>)), Lower(c))

\* any(keyword in description_lower for keyword in FINTECH_KEYWORDS)
HasFintechKeyword(st) ==
    \E k \in FINTECH_KEYWORDS : Contains(Lower(Get(st, "description", <<>>)), k)

\* any(g in {'female', 'woman', 'women'} for g in genders_lower)
HasFemaleFounder(st) ==
    LET genders == Get(st, "founder_genders", <<>>)
    IN \E k \in 1..Len(genders) : Lower(genders[k]) \in {<<"f", "e", "m", "a", "l", "e">>, <<"w", "o", "m", "a", "n">>, <<"w", "o", "m", "e", "n">>}

\* score_startup(startup, config)
score_startup(st, cf) ==
    LET weights == Get(cf, "weights", EmptyDict)
    IN (IF InRegion(st, CENTRAL_AMERICA) THEN Get(weights, "central_america_presence", 0)
        ELSE IF InRegion(st, SOUTH_AMERICA) THEN Get(weights, "south_of_mexico_presence", 0)
        ELSE 0)
       + (IF HasFintechKeyword(st) THEN Get(weights, "fintech_keyword_penalty", 0) ELSE 0)
       + (IF HasFemaleFounder(st) THEN Get(weights, "female_founder_boost", 0) ELSE 0)

(***************************************************************************)
(* score_startup on a startup and a configuration                          *)
(***************************************************************************)

\* A dict with the keys of the non-empty option sets (three keys).
MkDict3(k1, v1, k2, v2, k3, v3) ==
    [k \in ((IF v1 = {} THEN {} ELSE {k1})
            \cup (IF v2 = {} THEN {} ELSE {k2})
            \cup (IF v3 = {} THEN {} ELSE {k3})) |->
        IF k = k1 THEN Only(v1) ELSE IF k = k2 THEN Only(v2) ELSE Only(v3)]

Startups ==
    { MkDict3("location", l, "description", d, "founder_genders", g) :
        l \in {{}, {<<"S", "a", "n", " ", "J", "o", "s", "e", ",", " ", "C", "o", "s", "t", "a", " ", "R", "i", "c", "a">>}, {<<"c", "h", "i", "l", "e">>}, {<<"M", "e", "x", "i", "c", "o">>}},
        d \in {{}, {<<"A", " ", "F", "i", "n", "t", "e", "c", "h", " ", "a", "p", "p">>}, {<<"s", "a", "a", "s">>}},
        g \in {{}, {<<<<"F", "e", "m", "a", "l", "e">>>>}, {<<<<"m", "a", "l", "e">>>>}, {<<<<"m", "a", "l", "e">>, <<"w", "o", "m", "a", "n">>>>}} }

\* The weights: every key absent or present.
WeightDicts ==
    { [k \in ((IF ca = {} THEN {} ELSE {"central_america_presence"})
              \cup (IF sa = {} THEN {} ELSE {"south_of_mexico_presence"})
              \cup (IF fp = {} THEN {} ELSE {"fintech_keyword_penalty"})
              \cup (IF fb = {} THEN {} ELSE {"female_founder_boost"})) |->
          CASE k = "central_america_presence" -> Only(ca)
            [] k = "south_of_mexico_presence" -> Only(sa)
            [] k = "fintech_keyword_penalty" -> Only(fp)
            [] k = "female_founder_boost" -> Only(fb)] :
        ca \in {{}, {3}, {6}},
        sa \in {{}, {3}, {6}},
        fp \in {{}, {-2}},
        fb \in {{}, {2}, {6}} }

StartupConfigs == {EmptyDict} \cup { [weights |-> w] : w \in WeightDicts }

InitStartup ==
    /\ startup \in Startups
    /\ config \in StartupConfigs
    /\ result = 0
    /\ NoDedupe /\ NoScore /\ NoClassify /\ NoExtra
    /\ pc = "start"

ScoreStartup ==
    /\ pc = "start"
    /\ result' = score_startup(startup, config)
    /\ pc' = "done"
    /\ UNCHANGED <<startup, config, dedupeVars, scoreVars, classifyVars, extraVars>>

NextStartup == ScoreStartup

SpecStartup == InitStartup /\ [][NextStartup]_vars

\* The configured weight of a category, 0 when it is not configured.
WeightOf(cf, key) ==
    IF "weights" \in DOMAIN cf /\ key \in DOMAIN cf["weights"] THEN cf["weights"][key] ELSE 0

\* C8: score_startup returns the sum of the configured weights of the
\* categories that are present (region presence, fintech penalty,
\* female-founder boost), clamped to 0..10.
C8_ClampedWeightedSum ==
    pc = "done" =>
        LET sum == (IF InRegion(startup, CENTRAL_AMERICA)
                    THEN WeightOf(config, "central_america_presence")
                    ELSE IF InRegion(startup, SOUTH_AMERICA)
                    THEN WeightOf(config, "south_of_mexico_presence")
                    ELSE 0)
                   + Indicator(HasFintechKeyword(startup))
                        * WeightOf(config, "fintech_keyword_penalty")
                   + Indicator(HasFemaleFounder(startup))
                        * WeightOf(config, "female_founder_boost")
        IN result = (IF sum < 0 THEN 0 ELSE IF sum > 10 THEN 10 ELSE sum)

(***************************************************************************)
(* src/src/filters.py                                                      *)
(***************************************************************************)

\* _normalize(text): text.lower() if isinstance(text, str) else ""
_normalize(t) == IF t = None THEN <<>> ELSE Lower(t)

\* must_have_any(text, terms); MustHaveAnyCaseSensitive leaves the text as it is.
MustHaveAnyCaseSensitive(t, terms) ==
    \E k \in 1..Len(terms) : Contains(IF t = None THEN <<>> ELSE t, Lower(terms[k]))

must_have_any(t, terms) ==
    \E k \in 1..Len(terms) : Contains(_normalize(t), Lower(terms[k]))

\* " ".join(_normalize(p) for p in parts if p)
RECURSIVE JoinParts(_)
JoinParts(parts) ==
    IF parts = <<>> THEN <<>>
    ELSE LET rest == JoinParts(Tail(parts))
             p == Head(parts)
         IN IF p = None \/ p = <<>> THEN rest
            ELSE IF \A k \in 1..Len(Tail(parts)) : Tail(parts)[k] = None \/ Tail(parts)[k] = <<>>
                 THEN _normalize(p)
                 ELSE _normalize(p) \o <<" ">> \o rest

\* must_have_geo(parts, countries); MustHaveGeoFirstPart looks at the first
\* part only.
MustHaveGeoFirstPart(parts, countries) ==
    \E k \in 1..Len(countries) : Contains(JoinParts(<<Head(parts)>>), Lower(countries[k]))

must_have_geo(parts, countries) ==
    \E k \in 1..Len(countries) : Contains(JoinParts(parts), Lower(countries[k]))

\* exclude_if_any(text, terms); ExcludeCaseSensitive leaves the text as it is.
ExcludeCaseSensitive(t, terms) ==
    \E k \in 1..Len(terms) : Contains(IF t = None THEN <<>> ELSE t, Lower(terms[k]))

exclude_if_any(t, terms) ==
    \E k \in 1..Len(terms) : Contains(_normalize(t), Lower(terms[k]))

\* sector_penalty(text, sector_terms, weights)
\* SectorPenaltyDefault charges 2 when no penalty is configured.
SectorPenaltyDefault(t, sector_terms, weights) ==
    LET fintech_terms == Get(sector_terms, "fintech", <<>>)
    IN IF \E k \in 1..Len(fintech_terms) : Contains(_normalize(t), Lower(fintech_terms[k]))
       THEN Get(weights, "fintech_penalty", -2)
       ELSE 0

sector_penalty(t, sector_terms, weights) ==
    LET fintech_terms == Get(sector_terms, "fintech", <<>>)
    IN IF \E k \in 1..Len(fintech_terms) : Contains(_normalize(t), Lower(fintech_terms[k]))
       THEN Get(weights, "fintech_penalty", 0)
       ELSE 0

(***************************************************************************)
(* classify_row: the Classifier (sections 4.2, 4.3 and 6 of the             *)
(* specification), on the helpers of src/src/filters.py                    *)
(***************************************************************************)

\* The title and the snippet combined; an absent part counts as empty.
TitleAndSnippet(r) ==
    (IF r.title = None THEN <<>> ELSE r.title)
    \o <<" ">>
    \o (IF r.snippet = None THEN <<>> ELSE r.snippet)

\* The Scorer: the sum of the weights of the categories present, clamped.
row_score(r, cf) ==
    LET t == TitleAndSnippet(r)
        w == cf.weights
    IN Max(0, Min(10,
         (IF must_have_geo(<<r.title, r.snippet, r.url>>, w.geo.countries)
          THEN w.geo.weight ELSE 0)
         + (IF must_have_any(t, w.post_revenue.keywords) THEN w.post_revenue.weight ELSE 0)
         + (IF must_have_any(t, w.enterprise.keywords) THEN w.enterprise.weight ELSE 0)
         + sector_penalty(t, [fintech |-> w.fintech_penalty.keywords],
                          [fintech_penalty |-> w.fintech_penalty.weight])))

\* The Classifier's precedence: exclusion, lead, review, drop.
classify_row(r, cf) ==
    LET t == TitleAndSnippet(r)
        s == row_score(r, cf)
    IN IF exclude_if_any(t, cf.exclude_terms) THEN "drop"
       ELSE IF /\ must_have_any(t, cf.weights.post_revenue.keywords)
               /\ must_have_geo(<<r.title, r.snippet, r.url>>, cf.weights.geo.countries)
               /\ s >= cf.min_score_to_append
            THEN "lead"
       ELSE IF s >= cf.min_score_to_review THEN "review"
       ELSE "drop"

(***************************************************************************)
(* classify_row on a Row and a configuration                               *)
(***************************************************************************)

MaxTitleParts == 2

TitleParts ==
    {<<"P", "o", "s", "t", "-", "r", "e", "v", "e", "n", "u", "e">>, <<"C", "h", "i", "l", "e">>, <<"I", "d", "e", "a", " ", "s", "t", "a", "g", "e">>, <<"F", "i", "n", "t", "e", "c", "h">>, <<"e", "n", "t", "e", "r", "p", "r", "i", "s", "e">>, <<"s", "t", "a", "r", "t", "u", "p">>}

Titles == { Join(f) : f \in UNION { [1..n -> TitleParts] : n \in 0..MaxTitleParts } }

Candidates ==
    { [title |-> t, snippet |-> sn, url |-> u, score |-> 0] :
        t \in Titles,
        sn \in {None, <<>>, <<"i", "n", " ", "B", "r", "a", "z", "i", "l">>, <<"a", "n", " ", "i", "d", "e", "a", " ", "s", "t", "a", "g", "e">>},
        u \in {None, <<"h", "t", "t", "p", ":", "/", "/", "e", "x", "a", "m", "p", "l", "e", ".", "c", "o", "m">>, <<"h", "t", "t", "p", ":", "/", "/", "e", "x", "a", "m", "p", "l", "e", ".", "c", "o", "m", "/", "c", "h", "i", "l", "e">>} }

\* The configuration of the specification's scenarios, with the two thresholds
\* and the enterprise weight varied.
ClassifyConfigs ==
    { [weights |->
          [geo |-> [countries |-> <<<<"C", "h", "i", "l", "e">>, <<"B", "r", "a", "z", "i", "l">>>>, weight |-> 3],
           post_revenue |-> [keywords |-> <<<<"p", "o", "s", "t", "-", "r", "e", "v", "e", "n", "u", "e">>>>, weight |-> 3],
           enterprise |-> [keywords |-> <<<<"e", "n", "t", "e", "r", "p", "r", "i", "s", "e">>, <<"B", "2", "B">>>>, weight |-> ew],
           fintech_penalty |-> [keywords |-> <<<<"f", "i", "n", "t", "e", "c", "h">>>>, weight |-> -2]],
       exclude_terms |-> <<<<"i", "d", "e", "a", " ", "s", "t", "a", "g", "e">>, <<"h", "a", "c", "k", "a", "t", "h", "o", "n">>>>,
       min_score_to_append |-> ma,
       min_score_to_review |-> mr] :
        ew \in {1, 2}, ma \in {3, 4}, mr \in {2, 5} }

InitClassify ==
    /\ candidate \in Candidates
    /\ config \in ClassifyConfigs
    /\ classification = ""
    /\ NoDedupe /\ NoScore /\ NoStartup /\ NoExtra
    /\ pc = "start"

ClassifyRow ==
    /\ pc = "start"
    /\ candidate' = [candidate EXCEPT !.score = row_score(candidate, config)]
    /\ classification' = classify_row(candidate, config)
    /\ pc' = "done"
    /\ UNCHANGED <<config, dedupeVars, scoreVars, startupVars, extraVars>>

NextClassify == ClassifyRow

SpecClassify == InitClassify /\ [][NextClassify]_vars

\* The signals as the Classifier's rules name them, on the record's texts.
TextOf(r) ==
    Lower((IF r.title = None THEN <<>> ELSE r.title)
          \o <<" ">>
          \o (IF r.snippet = None THEN <<>> ELSE r.snippet))

HasExclusionTerm(r, cf) ==
    \E k \in 1..Len(cf.exclude_terms) : Contains(TextOf(r), Lower(cf.exclude_terms[k]))

HasPostRevenue(r, cf) ==
    \E k \in 1..Len(cf.weights.post_revenue.keywords) :
        Contains(TextOf(r), Lower(cf.weights.post_revenue.keywords[k]))

HasGeo(r, cf) ==
    \E k \in 1..Len(cf.weights.geo.countries) :
        \E part \in {r.title, r.snippet, r.url} :
            part # None /\ Contains(Lower(part), Lower(cf.weights.geo.countries[k]))

QualifiesAsLead(r, cf) ==
    /\ ~HasExclusionTerm(r, cf)
    /\ HasPostRevenue(r, cf)
    /\ HasGeo(r, cf)
    /\ r.score >= cf.min_score_to_append

\* C4: a record whose title and snippet contain an exclusion term is
\* classified drop, whatever its score and its other signals.
C4_ExclusionDrops ==
    (pc = "done" /\ HasExclusionTerm(candidate, config)) => classification = "drop"

\* An excluded record that has both the geo and the post-revenue signal and a
\* score at or above the lead threshold has been classified.
C4_Witness ==
    /\ pc = "done"
    /\ HasExclusionTerm(candidate, config)
    /\ HasPostRevenue(candidate, config)
    /\ HasGeo(candidate, config)
    /\ candidate.score >= config.min_score_to_append
    /\ classification = "drop"

\* C5: a record is classified lead exactly when it has no exclusion term, has
\* the post-revenue and the geo signal, and scores at least
\* min_score_to_append.
C5_LeadIff ==
    pc = "done" => (classification = "lead" <=> QualifiesAsLead(candidate, config))

\* A record with the geo signal in its snippet only has become a lead, at a
\* score the sector penalty has lowered to the threshold.
C5_Witness ==
    /\ pc = "done"
    /\ classification = "lead"
    /\ ~Contains(Lower(candidate.title), <<"c", "h", "i", "l", "e">>)
    /\ candidate.url = None
    /\ Contains(Lower(candidate.title), <<"f", "i", "n", "t", "e", "c", "h">>)
    /\ candidate.score = config.min_score_to_append

\* C6: every record gets exactly one of lead, review and drop by the
\* precedence exclusion, lead, review, drop: a record that is neither excluded
\* nor a lead is review when its score is at least min_score_to_review and
\* drop otherwise.
C6_Precedence ==
    pc = "done" =>
        classification =
            (IF HasExclusionTerm(candidate, config) THEN "drop"
             ELSE IF QualifiesAsLead(candidate, config) THEN "lead"
             ELSE IF candidate.score >= config.min_score_to_review THEN "review"
             ELSE "drop")

\* A record with the post-revenue signal but no geo signal, at a score above
\* the lead threshold, has been sent to review.
C6_Witness ==
    /\ pc = "done"
    /\ classification = "review"
    /\ HasPostRevenue(candidate, config)
    /\ ~HasGeo(candidate, config)
    /\ candidate.score >= config.min_score_to_append

(***************************************************************************)
(* dedupe_rows without rapidfuzz: the _Fallback of src/src/dedupe.py       *)
(***************************************************************************)

\* Rows whose titles and companies differ in case or in token order only.
FallbackRows ==
    { MkRow(u, t, c, {s}, {}) :
        u \in {{}, {"u1"}, {"u2"}},
        t \in {{<<"a", " ", "b">>}, {<<"A", " ", "B">>}, {<<"b", " ", "a">>}},
        c \in {{}, {<<"x">>}, {<<"X">>}},
        s \in {5, 7} }

InitFallback ==
    /\ rows \in [1..2 -> FallbackRows]
    /\ idx = 0
    /\ deduped = <<>>
    /\ pass = 1
    /\ NoScore /\ NoStartup /\ NoClassify
    /\ fuzz = "fallback" /\ NoPenalty /\ NoFrame /\ NoPipeline
    /\ config = <<>>
    /\ pc = "start"

SpecFallback == InitFallback /\ [][Next]_vars

LowerTitle(r) == Lower(IF "title" \in DOMAIN r THEN r["title"] ELSE <<>>)

LowerCompany(r) == Lower(IF "company" \in DOMAIN r THEN r["company"] ELSE <<>>)

SharedUrl(a, b) == "url" \in DOMAIN a /\ "url" \in DOMAIN b /\ a["url"] = b["url"]

\* C13: without the fuzzy matcher dedupe_rows never raises, and two records
\* with no shared url are merged exactly when their lower-cased titles are
\* equal and their lower-cased companies are equal.
C13_FallbackExactMatch ==
    /\ pc # "raised"
    /\ (pass = 1 /\ idx = 2 /\ Len(rows) = 2 /\ ~SharedUrl(rows[1], rows[2]))
        => (Len(deduped) = 1 <=>
                (/\ LowerTitle(rows[1]) = LowerTitle(rows[2])
                 /\ LowerCompany(rows[1]) = LowerCompany(rows[2])))

\* Two records without a shared url whose titles differ in case only have been
\* merged by the fallback.
C13_Witness ==
    /\ fuzz = "fallback"
    /\ pass = 1
    /\ idx = 2
    /\ Len(rows) = 2
    /\ ~SharedUrl(rows[1], rows[2])
    /\ rows[1]["title"] # rows[2]["title"]
    /\ Len(deduped) = 1

(***************************************************************************)
(* dedupe_rows on records whose fields are absent or None                  *)
(***************************************************************************)

NoneRows ==
    { MkRow(u, t, {}, s, ts) :
        u \in {{}, {"<None>"}, {"u1"}},
        t \in {{}, {None}, {<<"a", " ", "b">>}},
        s \in {{}, {NoneInt}, {0}, {5}},
        ts \in {{}, {None}, {<<"1">>}} }

InitNone ==
    /\ rows \in [1..2 -> NoneRows]
    /\ idx = 0
    /\ deduped = <<>>
    /\ pass = 1
    /\ NoScore /\ NoStartup /\ NoClassify /\ NoExtra
    /\ config = <<>>
    /\ pc = "start"

SpecNone == InitNone /\ [][Next]_vars

\* C14: a record with an optional field absent or None never aborts the
\* processing: the signal matchers find nothing in a None text, and dedupe_rows
\* with its survivor comparison never raises.
C14_NoneNeverAborts ==
    /\ ~must_have_any(None, <<<<"p", "o", "s", "t", "-", "r", "e", "v", "e", "n", "u", "e">>>>)
    /\ ~must_have_geo(<<None, None, None>>, <<<<"C", "h", "i", "l", "e">>>>)
    /\ ~exclude_if_any(None, <<<<"i", "d", "e", "a", " ", "s", "t", "a", "g", "e">>>>)
    /\ sector_penalty(None, [fintech |-> <<<<"f", "i", "n", "t", "e", "c", "h">>>>], [fintech_penalty |-> -2]) = 0
    /\ pc # "raised"

(***************************************************************************)
(* dedupe_rows on batches of records with scores and timestamps            *)
(***************************************************************************)

MaxRankRows == 3

RankRows ==
    { MkRow(u, {t}, {}, {s}, {ts}) :
        u \in {{}, {"u1"}},
        t \in {<<"a", " ", "b">>, <<"a", " ", "c">>},
        s \in {5, 7},
        ts \in {<<"1">>, <<"2">>} }

InitRank ==
    /\ rows \in UNION { [1..n -> RankRows] : n \in 0..MaxRankRows }
    /\ idx = 0
    /\ deduped = <<>>
    /\ pass = 1
    /\ NoScore /\ NoStartup /\ NoClassify /\ NoExtra
    /\ config = <<>>
    /\ pc = "start"

SpecRank == InitRank /\ [][Next]_vars

\* a ranks at least as high as b by (score, timestamp).
RankAtLeast(a, b) ==
    \/ ScoreOr0(a) > ScoreOr0(b)
    \/ /\ ScoreOr0(a) = ScoreOr0(b)
       /\ ~StrGreater(StampOrEmpty(b), StampOrEmpty(a))

MaxScore(s) == CHOOSE m \in {ScoreOr0(s[k]) : k \in 1..Len(s)} :
                   \A k \in 1..Len(s) : m >= ScoreOr0(s[k])

\* C18: every survivor is one of the rows processed so far, unmodified; every
\* row processed so far has a current survivor ranked at least as high; once
\* a row has been processed some survivor has the maximal rank of the rows
\* processed; and the maximal score of the returned list is that of the input.
C18_BestRecordKept ==
    /\ \A k \in 1..Len(deduped) : \E j \in 1..idx : rows[j] = deduped[k]
    /\ \A j \in 1..idx : \E k \in 1..Len(deduped) : RankAtLeast(deduped[k], rows[j])
    /\ idx > 0 =>
        \E k \in 1..Len(deduped) : \A j \in 1..idx : RankAtLeast(deduped[k], rows[j])
    /\ (Returned /\ Len(rows) > 0) => MaxScore(deduped) = MaxScore(rows)

\* A batch of three rows has been deduplicated to fewer: its last row, of the
\* same score as the first and an earlier timestamp, has been discarded.
C18_Witness ==
    /\ pass = 1
    /\ Returned
    /\ Len(rows) = 3
    /\ Len(deduped) < 3
    /\ ScoreOr0(rows[3]) = ScoreOr0(rows[1])
    /\ StrGreater(StampOrEmpty(rows[1]), StampOrEmpty(rows[3]))
    /\ \A k \in 1..Len(deduped) : deduped[k] # rows[3]

(***************************************************************************)
(* sector_penalty and score_startup on configurations with missing weights *)
(***************************************************************************)

\* The calls sector_penalty(text, sector_terms, weights).
PenaltyCalls ==
    { <<t, st, w>> :
        t \in {None, <<"A", " ", "F", "i", "n", "T", "e", "c", "h", " ", "a", "p", "p">>, <<"s", "a", "a", "s">>},
        st \in {EmptyDict, [fintech |-> <<>>], [fintech |-> <<<<"F", "i", "n", "t", "e", "c", "h">>, <<"n", "e", "o", "b", "a", "n", "k">>>>]},
        w \in {EmptyDict, [fintech_penalty |-> -2], [fintech_penalty |-> -3],
               [geo |-> 3]} }

\* Startups that match every subset of the categories.
WeightsStartups ==
    { MkDict3("location", l, "description", d, "founder_genders", g) :
        l \in {{}, {<<"S", "a", "n", " ", "J", "o", "s", "e", ",", " ", "C", "o", "s", "t", "a", " ", "R", "i", "c", "a">>}, {<<"c", "h", "i", "l", "e">>}},
        d \in {{}, {<<"A", " ", "F", "i", "n", "t", "e", "c", "h", " ", "a", "p", "p">>}},
        g \in {{}, {<<<<"F", "e", "m", "a", "l", "e">>>>}} }

\* Configurations with every subset of the weight keys.
WeightsConfigs ==
    {EmptyDict} \cup
    { [weights |-> w] :
        w \in { wd \in WeightDicts : \A k \in DOMAIN wd : wd[k] \in {-2, 2, 3} } }

InitWeights ==
    /\ startup \in WeightsStartups
    /\ config \in WeightsConfigs
    /\ result = 0
    /\ penaltyCall \in PenaltyCalls
    /\ penalty = 0
    /\ NoDedupe /\ NoScore /\ NoClassify
    /\ fuzz = "rapidfuzz" /\ NoFrame /\ NoPipeline
    /\ pc = "start"

SectorPenalty ==
    /\ pc = "done"
    /\ penalty' = sector_penalty(penaltyCall[1], penaltyCall[2], penaltyCall[3])
    /\ pc' = "penalised"
    /\ UNCHANGED <<startup, config, result, penaltyCall>>
    /\ UNCHANGED <<dedupeVars, scoreVars, classifyVars, fuzz, frameVars, pipelineVars>>

NextWeights == ScoreStartup \/ SectorPenalty

SpecWeights == InitWeights /\ [][NextWeights]_vars

\* A fintech term of the sector terms occurs in the text of the call.
FintechTermMatches(call) ==
    /\ call[1] # None
    /\ "fintech" \in DOMAIN call[2]
    /\ AnyTermIn(call[1], call[2]["fintech"])

\* C15: sector_penalty returns weights['fintech_penalty'] when a fintech term
\* matches and the key is configured, and 0 otherwise; score_startup returns
\* the sum of the configured weights of the matched categories, a matched
\* category whose weight key is missing adding 0.
C15_MissingWeightIsZero ==
    /\ pc = "penalised" =>
        penalty = (IF FintechTermMatches(penaltyCall)
                      /\ "fintech_penalty" \in DOMAIN penaltyCall[3]
                   THEN penaltyCall[3]["fintech_penalty"]
                   ELSE 0)
    /\ pc \in {"done", "penalised"} =>
        result = (IF InRegion(startup, CENTRAL_AMERICA)
                  THEN WeightOf(config, "central_america_presence")
                  ELSE IF InRegion(startup, SOUTH_AMERICA)
                  THEN WeightOf(config, "south_of_mexico_presence")
                  ELSE 0)
                 + (IF HasFintechKeyword(startup)
                    THEN WeightOf(config, "fintech_keyword_penalty") ELSE 0)
                 + (IF HasFemaleFounder(startup)
                    THEN WeightOf(config, "female_founder_boost") ELSE 0)

\* A fintech text was penalised under weights without 'fintech_penalty', and a
\* fintech startup of a listed region was scored under weights that hold
\* neither the region's key nor 'fintech_keyword_penalty'.
C15_Witness ==
    /\ pc = "penalised"
    /\ FintechTermMatches(penaltyCall)
    /\ "fintech_penalty" \notin DOMAIN penaltyCall[3]
    /\ penalty = 0
    /\ InRegion(startup, CENTRAL_AMERICA)
    /\ HasFintechKeyword(startup)
    /\ HasFemaleFounder(startup)
    /\ "weights" \in DOMAIN config
    /\ DOMAIN config["weights"] = {"female_founder_boost"}
    /\ result = config["weights"]["female_founder_boost"]

(***************************************************************************)
(* src/src/utils/dedupe.py: dedupe on a frame of URL, Company and Score    *)
(***************************************************************************)

threshold == 90

\* df.sort_values(by=score_col, ascending=False): the orders of the rows by
\* descending score; the default sort is not stable, so rows of equal score
\* may come out in any order.
sort_values(f) ==
    LET n == Len(f)
        perms == { p \in [1..n -> 1..n] : \A i, j \in 1..n : i # j => p[i] # p[j] }
    IN { [i \in 1..n |-> f[p[i]]] : p \in
            { q \in perms : \A i \in 1..(n - 1) : f[q[i]].Score >= f[q[i + 1]].Score } }

\* drop_duplicates(subset=[url_col], keep="first")
drop_duplicates(f) ==
    LET first(i) == \A j \in 1..(i - 1) : f[j].URL # f[i].URL
        RECURSIVE from(_)
        from(i) == IF i > Len(f) THEN <<>>
                   ELSE IF first(i) THEN <<f[i]>> \o from(i + 1)
                   ELSE from(i + 1)
    IN from(1)

\* The loop over df_dedup.iterrows(): a row is kept when its company is below
\* the threshold against the company of every row kept before it.
RECURSIVE unique_rows(_, _, _)
unique_rows(f, i, acc) ==
    IF i > Len(f) THEN acc
    ELSE IF \A k \in 1..Len(acc) :
                token_sort_ratio(f[i].Company, acc[k].Company) < threshold
         THEN unique_rows(f, i + 1, Append(acc, f[i]))
         ELSE unique_rows(f, i + 1, acc)

MaxFrameRows == 3

FrameRows ==
    [URL : {"u1", "u2"}, Company : {<<"a", " ", "b">>, <<"b", " ", "a">>, <<"c">>}, Score : {7, 8, 9}]

InitFrame ==
    /\ frame \in UNION { [1..n -> FrameRows] : n \in 0..MaxFrameRows }
    /\ kept = <<>>
    /\ NoDedupe /\ NoScore /\ NoStartup /\ NoClassify
    /\ fuzz = "rapidfuzz" /\ NoPenalty /\ NoPipeline
    /\ config = <<>>
    /\ pc = "start"

\* dedupe(df)
Dedupe ==
    /\ pc = "start"
    /\ IF frame = <<>>
       THEN kept' = frame
       ELSE \E sorted \in sort_values(frame) :
                kept' = unique_rows(drop_duplicates(sorted), 1, <<>>)
    /\ pc' = "done"
    /\ UNCHANGED <<frame, dedupeVars, scoreVars, startupVars, classifyVars, config>>
    /\ UNCHANGED <<fuzz, penaltyVars, pipelineVars>>

NextFrame == Dedupe

SpecFrame == InitFrame /\ [][NextFrame]_vars

\* Two rows are duplicates: the same URL, or companies similar at the
\* threshold or above.
DuplicateRows(a, b) ==
    \/ a.URL = b.URL
    \/ token_sort_ratio(a.Company, b.Company) >= 90

\* C16: in the output of dedupe no two rows are duplicates, and every row
\* removed is a duplicate of a retained row whose score is at least its own.
C16_HighestOfGroupKept ==
    pc = "done" =>
        /\ \A i, j \in 1..Len(kept) : i # j => ~DuplicateRows(kept[i], kept[j])
        /\ \A i \in 1..Len(frame) :
            (\A k \in 1..Len(kept) : kept[k] # frame[i]) =>
                \E k \in 1..Len(kept) :
                    /\ DuplicateRows(kept[k], frame[i])
                    /\ kept[k].Score >= frame[i].Score

(***************************************************************************)
(* src/src/sourcing.py: VCSourcingPipeline.run                             *)
(*                                                                         *)
(* batch is the list of items fetched by the run, df the frame computed    *)
(* from it, sheet the URL column of the worksheet, ret the value returned  *)
(* and pc the path the run took.                                           *)
(***************************************************************************)

MaxItems == 2

MaxRuns == 2

\* run returns None.
NoneFrame == <<[URL |-> "<None>"]>>

\* The items of _process_feed_entries: link, title, country_guess (a country
\* name or "") and the publication time, here a clock reading.
Items ==
    [url : {"u1", "u2"}, title : {<<"n", "e", "w", "s">>}, country_guess : {<<>>, <<"C", "h", "i", "l", "e">>},
     published : {1, 2}]

ItemBatches == UNION { [1..n -> Items] : n \in 0..MaxItems }

\* The row transform_items builds for an item; the summary is empty.
transform_item(it) ==
    [URL |-> it.url,
     Country |-> it.country_guess,
     Title |-> it.title,
     Score |-> calculate_score(it.country_guess, it.title \o <<".", " ">>),
     Published |-> it.published]

\* The rows of the items, computed once.
ItemRows == { <<it, transform_item(it)>> : it \in Items }

RowOf(it) == (CHOOSE p \in ItemRows : p[1] = it)[2]

\* a stands before b under sort_values(["Score", "Published"],
\* ascending=[False, False]).
SortsBefore(a, b) ==
    \/ a.Score > b.Score
    \/ a.Score = b.Score /\ a.Published > b.Published

\* The stable sort of a frame on several columns.
RECURSIVE sort_frame(_)
sort_frame(f) ==
    IF f = <<>> THEN <<>>
    ELSE LET r == f[Len(f)]
             front == sort_frame(SubSeq(f, 1, Len(f) - 1))
             n == Cardinality({k \in 1..Len(front) : ~SortsBefore(r, front[k])})
         IN SubSeq(front, 1, n) \o <<r>> \o SubSeq(front, n + 1, Len(front))

\* DataTransformer.transform_items(items)
transform_items(items) == sort_frame([k \in 1..Len(items) |-> RowOf(items[k])])

\* read_existing_urls: the URLs of the records, or set() when reading fails.
read_existing_urls(ws, read_ok) ==
    IF read_ok THEN {ws[k] : k \in 1..Len(ws)} \ {""} ELSE {}

\* df[~df["URL"].isin(existing_urls)]
new_rows(f, existing) ==
    LET RECURSIVE from(_)
        from(i) == IF i > Len(f) THEN <<>>
                   ELSE IF f[i].URL \in existing THEN from(i + 1)
                   ELSE <<f[i]>> \o from(i + 1)
    IN from(1)

\* append_dataframe: the rows are written below the rows of the worksheet.
append_dataframe(ws, f) == ws \o [k \in 1..Len(f) |-> f[k].URL]

\* HandlerReturnsNone gives up the frame when the hand-off fails.
HandlerReturnsNone(f) == NoneFrame

\* except Exception: return df
handler_return(f) == f

InitPipeline ==
    /\ batch = <<>>
    /\ df = <<>>
    /\ sheet \in {<<>>, <<"u1">>, <<"u2", "u1">>}
    /\ ret = <<>>
    /\ runs = 0
    /\ NoDedupe /\ NoScore /\ NoStartup /\ NoClassify
    /\ fuzz = "rapidfuzz" /\ NoPenalty /\ NoFrame
    /\ config = <<>>
    /\ pc = "start"

\* One execution of run(): the feeds deliver items; opening the sheet, reading
\* its records and appending to it each succeed or fail.
Run ==
    /\ runs < MaxRuns
    /\ runs' = runs + 1
    /\ \E items \in ItemBatches, open_ok, read_ok, append_ok \in BOOLEAN :
        /\ batch' = items
        /\ IF items = <<>>
           THEN df' = <<>> /\ ret' = NoneFrame /\ sheet' = sheet /\ pc' = "no_items"
           ELSE
            LET f == transform_items(items)
                fresh == new_rows(f, read_existing_urls(sheet, read_ok))
            IN /\ df' = f
               /\ IF ~open_ok
                  THEN ret' = handler_return(f) /\ sheet' = sheet /\ pc' = "open_failed"
                  ELSE IF fresh = <<>>
                  THEN ret' = f /\ sheet' = sheet /\ pc' = "nothing_new"
                  ELSE IF ~append_ok
                  THEN /\ ret' = handler_return(f)
                       /\ sheet' = sheet
                       /\ pc' = (IF read_ok THEN "append_failed" ELSE "read_append_failed")
                  ELSE /\ ret' = f
                       /\ sheet' = append_dataframe(sheet, fresh)
                       /\ pc' = (IF read_ok THEN "appended" ELSE "read_failed")
    /\ UNCHANGED <<dedupeVars, scoreVars, startupVars, classifyVars, config>>
    /\ UNCHANGED <<fuzz, penaltyVars, frameVars>>

NextPipeline == Run

SpecPipeline == InitPipeline /\ [][NextPipeline]_vars

\* A single run, from any worksheet without a repeated URL.
InitHandoff ==
    /\ batch = <<>>
    /\ df = <<>>
    /\ sheet \in {<<>>, <<"u1">>, <<"u2", "u1">>}
    /\ ret = <<>>
    /\ runs = MaxRuns - 1
    /\ NoDedupe /\ NoScore /\ NoStartup /\ NoClassify
    /\ fuzz = "rapidfuzz" /\ NoPenalty /\ NoFrame
    /\ config = <<>>
    /\ pc = "start"

SpecHandoff == InitHandoff /\ [][NextPipeline]_vars

\* The run has returned a frame.
ReturnedFrame == pc \notin {"start", "no_items"}

\* C11: after a pipeline run no two records of the result are equivalent
\* (here: no two share a URL), deduplication having run over the candidates.
C11_ResultDeduplicated ==
    ReturnedFrame =>
        \A i, j \in 1..Len(ret) : i # j => ret[i].URL # ret[j].URL

\* C12: when the hand-off fails (opening the sheet, reading its URLs or
\* appending), run returns the frame computed before the hand-off: one row
\* per item, with its score, ordered by score and then publication time,
\* latest first.
C12_HandoffFailureKeepsResult ==
    pc \in {"open_failed", "append_failed", "read_append_failed", "read_failed"} =>
        /\ ret = df
        /\ Len(ret) = Len(batch)
        /\ \A it \in Items :
            Cardinality({k \in 1..Len(batch) : batch[k] = it})
                = Cardinality({k \in 1..Len(ret) :
                    /\ ret[k].URL = it.url
                    /\ ret[k].Country = it.country_guess
                    /\ ret[k].Published = it.published
                    /\ ret[k].Score = calculate_score(it.country_guess, it.title \o <<".", " ">>)})
        /\ \A k \in 1..(Len(ret) - 1) :
            \/ ret[k].Score > ret[k + 1].Score
            \/ ret[k].Score = ret[k + 1].Score /\ ret[k].Published >= ret[k + 1].Published

\* Appending two new rows of different scores failed, and the run returned
\* both, the higher score first.
C12_Witness ==
    /\ pc = "append_failed"
    /\ Len(batch) = 2
    /\ Len(ret) = 2
    /\ ret[1].Score > ret[2].Score
    /\ batch[1].country_guess = <<>>
    /\ \A k \in 1..Len(sheet) : sheet[k] # ret[1].URL /\ sheet[k] # ret[2].URL

\* C17: no URL occurs in more than one row of the sheet.
C17_NoRepeatedUrlInSheet ==
    \A i, j \in 1..Len(sheet) : i # j => sheet[i] # sheet[j]

====
